---- MODULE Spec2Model ----
(***************************************************************************)
(* Offline Bitrate Converter: the App component (src/App.tsx) as a state   *)
(* machine.  The React state cells and refs of App are the variables, the  *)
(* engine (window.FFmpeg / ffmpeg.wasm) and the user are the environment.  *)
(*                                                                         *)
(* Numbers.  Time codes are kept in centiseconds (HH:MM:SS.ff has exactly  *)
(* two fractional digits).  A ratio is a pair <<n, d>>: n/d in lowest      *)
(* terms, <<1, 0>> is +Infinity and <<0, 0>> is NaN, the two values a      *)
(* JavaScript division by zero produces.                                   *)
(***************************************************************************)
EXTENDS Integers, Sequences, FiniteSets, TLC

VARIABLES
    windowFFmpeg,       \* window.FFmpeg is defined (the engine script has loaded)
    mounted,            \* the App component is mounted
    gate,               \* "polling" | "loading" | "settled": position of the useEffect poll / loadFfmpeg
    probes,             \* number of `if (window.FFmpeg)` probes executed so far
    ffmpegReady,        \* useState(false)
    loadingProgress,    \* useState(0)
    loadingError,       \* useState(null)
    videoFile,          \* useState(null)
    targetBitrate,      \* useState('6000k')
    progress,           \* useState(0)
    logs,               \* useState([])
    outputUrl,          \* useState(null)
    isProcessing,       \* useState(false)
    conversionStats,    \* useState({ fps: 0, speed: '0x' })
    ffmpegRef,          \* useRef(null)
    videoDurationRef,   \* useRef(0), centiseconds
    nFetch,             \* handleConvert calls suspended at `await fetchFile(videoFile)`
    nRun,               \* handleConvert calls suspended at `await ffmpeg.run(...)`
    fs,                 \* names present in the engine's working storage (ffmpeg.FS)
    event               \* the event handled by the last step

vars == <<windowFFmpeg, mounted, gate, probes, ffmpegReady, loadingProgress,
          loadingError, videoFile, targetBitrate, progress, logs, outputUrl,
          isProcessing, conversionStats, ffmpegRef, videoDurationRef,
          nFetch, nRun, fs, event>>

reactState == <<ffmpegReady, loadingProgress, loadingError, videoFile,
                targetBitrate, progress, logs, outputUrl, isProcessing,
                conversionStats>>

----------------------------------------------------------------------------
(* Bounds of the model *)

\* the poll is followed for at most this many probes
ProbeBound == 4

\* the engine emits at most this many log lines between two clears of `logs`
MaxLogs == 2

\* maxAttempts of the readiness gate in the specification's example
MaxAttempts == 3

----------------------------------------------------------------------------
(* Values *)

Null == "null"
InputFileName == "input.mp4"
OutputFileName == "output.mp4"
BlobUrl == "blob:output"
EngineHandle == "ffmpeg"
TheFile == "video.mov"
DefaultBitrate == "6000k"
Bitrates == {DefaultBitrate, ""}
LoadErrorMessage == "Failed to load FFmpeg"

Zero == <<0, 1>>
One == <<1, 1>>
Half == <<1, 2>>
Infinity == <<1, 0>>
NaN == <<0, 0>>

InitialStats == [fps |-> 0, speed |-> "0x"]

RECURSIVE Gcd(_, _)
Gcd(a, b) == IF b = 0 THEN a ELSE Gcd(b, a % b)

\* a / b for a, b >= 0, as the JavaScript division gives it
Divide(a, b) ==
    IF b = 0 THEN (IF a = 0 THEN NaN ELSE Infinity)
    ELSE LET g == Gcd(a, b) IN <<a \div g, b \div g>>

IsNaN(r) == r = NaN

\* r < s; every comparison with NaN is false
Less(r, s) ==
    /\ ~IsNaN(r)
    /\ ~IsNaN(s)
    /\ r # s
    /\ r[1] * s[2] < s[1] * r[2]

\* Math.min(r, s): NaN if either is NaN
MathMin(r, s) ==
    IF IsNaN(r) \/ IsNaN(s) THEN NaN ELSE IF Less(s, r) THEN s ELSE r

\* Math.max(r, s)
MathMax(r, s) ==
    IF IsNaN(r) \/ IsNaN(s) THEN NaN ELSE IF Less(r, s) THEN s ELSE r

\* Math.round of a non-negative number given in tenths
MathRound(tenths) == (tenths + 5) \div 10

\* timeToSeconds("HH:MM:SS.ff"), in centiseconds
timeToSeconds(tc) == (tc[1] * 3600 + tc[2] * 60 + tc[3]) * 100 + tc[4]

----------------------------------------------------------------------------
(* Log lines.  A line is the sequence of the markers it carries, in the    *)
(* order they stand in the text; the free-form text between them matches   *)
(* none of the patterns.  <<>> is a line without any marker.               *)

NoTc == <<0, 0, 0, 0>>
Tok(kind, tc, n, s) == [k |-> kind, tc |-> tc, n |-> n, s |-> s]
Dur(tc) == Tok("Duration", tc, 0, "")      \* "Duration: HH:MM:SS.ff"
Time(tc) == Tok("time", tc, 0, "")         \* "time=HH:MM:SS.ff"
Fps(tenths) == Tok("fps", NoTc, tenths, "") \* "fps= 24.5"
Speed(s) == Tok("speed", NoTc, 0, s)       \* "speed=2.0x"
Err(s) == Tok("Error", NoTc, 0, s)         \* "Error: ..."

TwoSeconds == <<0, 0, 2, 0>>
OneSecond == <<0, 0, 1, 0>>
ThreeSeconds == <<0, 0, 3, 0>>

\* the lines the engine may emit
LogLines ==
    { <<>>,
      <<Dur(TwoSeconds)>>,
      <<Dur(NoTc)>>,
      <<Fps(245), Time(OneSecond), Speed("2.0x")>>,
      <<Fps(600), Time(ThreeSeconds)>>,
      <<Dur(TwoSeconds), Fps(245), Speed("2.0x")>> }

\* the ratios the engine may report to the progress callback
Ratios == { <<-1, 2>>, Half, <<3, 2>>, NaN }

ConversionFailedLine == <<Err("Conversion failed")>>
LoadFailedLine == <<Err(LoadErrorMessage)>>

NoMatch == Tok("", NoTc, 0, "")

\* message.match(/<kind>.../): the first occurrence of the marker, or no match
Match(message, kind) ==
    LET hits == {i \in 1..Len(message) : message[i].k = kind}
    IN IF hits = {} THEN NoMatch
       ELSE message[CHOOSE i \in hits : \A j \in hits : i <= j]

durationMatch(message) == Match(message, "Duration")
timeMatch(message) == Match(message, "time")
fpsMatch(message) == Match(message, "fps")
speedMatch(message) == Match(message, "speed")

----------------------------------------------------------------------------
(* React.  A state setter of an unmounted component changes nothing; a ref *)
(* is a plain object and is written whether or not the component is        *)
(* mounted.                                                                *)

SetState(current, next) == IF mounted THEN next ELSE current

AppendLogStale(prev, message) == <<message>>
\* setLogs(prev => [...prev, message])
AppendLog(prev, message) == Append(prev, message)

DurationKnownAlways(duration) == TRUE
\* videoDurationRef.current > 0
DurationKnown(duration) == duration > 0

\* the clamp of the progress callback
ClampRatio(ratio) == MathMax(Zero, MathMin(One, ratio))

\* the new conversionStats of the logger
StatsAfter(prev, message) ==
    LET f == fpsMatch(message)
        s == speedMatch(message)
    IN IF f # NoMatch \/ s # NoMatch
       THEN [fps |-> IF f # NoMatch THEN MathRound(f.n) ELSE prev.fps,
             speed |-> IF s # NoMatch THEN s.s ELSE prev.speed]
       ELSE prev

\* the new progress of the logger, reached only when no duration matched
ProgressAfter(prev, duration, message) ==
    LET t == timeMatch(message)
    IN IF DurationKnown(duration) /\ t # NoMatch
       THEN MathMin(One, Divide(timeToSeconds(t.tc), duration))
       ELSE prev

----------------------------------------------------------------------------
(* What App renders *)

StartButtonNoProcessingCheck ==
    ffmpegReady /\ outputUrl = Null /\ videoFile # Null
\* the Start Conversion button is on the page
StartButtonRendered ==
    ffmpegReady /\ outputUrl = Null /\ videoFile # Null /\ ~isProcessing

\* the file input is on the page and enabled
FileInputEnabled ==
    ffmpegReady /\ outputUrl = Null /\ videoFile = Null /\ ~isProcessing

\* ResultDisplay, with its "Convert Another" button, is on the page
ResultDisplayRendered == ffmpegReady /\ outputUrl # Null

\* loadFfmpeg has called createFFmpeg and setLogger: the logger and the
\* progress callback are in the engine's hands and run whenever it calls
\* them; neither looks at whether a load or a run is pending
CallbacksRegistered == gate # "polling"

----------------------------------------------------------------------------
Init ==
    /\ windowFFmpeg \in BOOLEAN
    /\ mounted = TRUE
    /\ gate = IF windowFFmpeg THEN "loading" ELSE "polling"
    /\ probes = 1
    /\ ffmpegReady = FALSE
    /\ loadingProgress = Zero
    /\ loadingError = Null
    /\ videoFile = Null
    /\ targetBitrate = DefaultBitrate
    /\ progress = Zero
    /\ logs = <<>>
    /\ outputUrl = Null
    /\ isProcessing = FALSE
    /\ conversionStats = InitialStats
    /\ ffmpegRef = Null
    /\ videoDurationRef = 0
    /\ nFetch = 0
    /\ nRun = 0
    /\ fs = {}
    /\ event = "mount"

\* the engine script finishes loading and defines window.FFmpeg
ScriptAppears ==
    /\ ~windowFFmpeg
    /\ windowFFmpeg' = TRUE
    /\ event' = "script"
    /\ UNCHANGED <<mounted, gate, probes, reactState, ffmpegRef,
                   videoDurationRef, nFetch, nRun, fs>>

\* the timer of the poll fires: checkForFFmpeg
checkForFFmpeg ==
    /\ gate = "polling"
    /\ probes < ProbeBound
    /\ probes' = probes + 1
    /\ gate' = IF windowFFmpeg THEN "loading" ELSE "polling"
    /\ event' = "probe"
    /\ UNCHANGED <<windowFFmpeg, mounted, reactState, ffmpegRef,
                   videoDurationRef, nFetch, nRun, fs>>

\* loadFfmpeg: `await ffmpeg.load()` resolves
LoadResolves ==
    /\ gate = "loading"
    /\ gate' = "settled"
    /\ ffmpegRef' = EngineHandle
    /\ ffmpegReady' = SetState(ffmpegReady, TRUE)
    /\ event' = "loaded"
    /\ UNCHANGED <<windowFFmpeg, mounted, probes, loadingProgress,
                   loadingError, videoFile, targetBitrate, progress, logs,
                   outputUrl, isProcessing, conversionStats,
                   videoDurationRef, nFetch, nRun, fs>>

LoadRejectsAndPollsAgain ==
    /\ gate = "loading"
    /\ gate' = "polling"
    /\ logs' = SetState(logs, AppendLog(logs, LoadFailedLine))
    /\ loadingError' = SetState(loadingError, LoadErrorMessage)
    /\ event' = "loadFailed"
    /\ UNCHANGED <<windowFFmpeg, mounted, probes, ffmpegReady,
                   loadingProgress, videoFile, targetBitrate, progress,
                   outputUrl, isProcessing, conversionStats, ffmpegRef,
                   videoDurationRef, nFetch, nRun, fs>>
\* loadFfmpeg: `await ffmpeg.load()` rejects, the catch block runs
LoadRejects ==
    /\ gate = "loading"
    /\ gate' = "settled"
    /\ logs' = SetState(logs, AppendLog(logs, LoadFailedLine))
    /\ loadingError' = SetState(loadingError, LoadErrorMessage)
    /\ event' = "loadFailed"
    /\ UNCHANGED <<windowFFmpeg, mounted, probes, ffmpegReady,
                   loadingProgress, videoFile, targetBitrate, progress,
                   outputUrl, isProcessing, conversionStats, ffmpegRef,
                   videoDurationRef, nFetch, nRun, fs>>

\* the callback given to ffmpeg.setLogger
Logger(message) ==
    /\ CallbacksRegistered
    /\ Len(logs) < MaxLogs
    /\ logs' = SetState(logs, AppendLog(logs, message))
    /\ IF durationMatch(message) # NoMatch
       THEN /\ videoDurationRef' = timeToSeconds(durationMatch(message).tc)
            /\ UNCHANGED <<progress, conversionStats>>
       ELSE /\ progress' = SetState(progress,
                    ProgressAfter(progress, videoDurationRef, message))
            /\ conversionStats' = SetState(conversionStats,
                    StatsAfter(conversionStats, message))
            /\ UNCHANGED videoDurationRef
    /\ event' = "log"
    /\ UNCHANGED <<windowFFmpeg, mounted, gate, probes, ffmpegReady,
                   loadingProgress, loadingError, videoFile, targetBitrate,
                   outputUrl, isProcessing, ffmpegRef, nFetch, nRun, fs>>

\* the progress callback given to createFFmpeg
ProgressCallback(ratio) ==
    /\ CallbacksRegistered
    /\ loadingProgress' = SetState(loadingProgress, ClampRatio(ratio))
    /\ event' = "progress"
    /\ UNCHANGED <<windowFFmpeg, mounted, gate, probes, ffmpegReady,
                   loadingError, videoFile, targetBitrate, progress, logs,
                   outputUrl, isProcessing, conversionStats, ffmpegRef,
                   videoDurationRef, nFetch, nRun, fs>>

\* FileUploader: onFileSelect = setVideoFile
SelectFile ==
    /\ mounted
    /\ FileInputEnabled
    /\ videoFile' = TheFile
    /\ event' = "select"
    /\ UNCHANGED <<windowFFmpeg, mounted, gate, probes, ffmpegReady,
                   loadingProgress, loadingError, targetBitrate, progress,
                   logs, outputUrl, isProcessing, conversionStats, ffmpegRef,
                   videoDurationRef, nFetch, nRun, fs>>

\* ConversionOptions: onBitrateChange = setTargetBitrate
SetBitrate(bitrate) ==
    /\ mounted
    /\ StartButtonRendered
    /\ targetBitrate' = bitrate
    /\ event' = "bitrate"
    /\ UNCHANGED <<windowFFmpeg, mounted, gate, probes, ffmpegReady,
                   loadingProgress, loadingError, videoFile, progress, logs,
                   outputUrl, isProcessing, conversionStats, ffmpegRef,
                   videoDurationRef, nFetch, nRun, fs>>

handleConvertKeepsEstimator ==
    IF videoFile = Null \/ targetBitrate = "" \/ ffmpegRef = Null
    THEN UNCHANGED <<progress, logs, outputUrl, isProcessing,
                     conversionStats, videoDurationRef, nFetch>>
    ELSE /\ isProcessing' = SetState(isProcessing, TRUE)
         /\ progress' = SetState(progress, Zero)
         /\ logs' = SetState(logs, <<>>)
         /\ outputUrl' = SetState(outputUrl, Null)
         /\ nFetch' = nFetch + 1
         /\ UNCHANGED <<videoDurationRef, conversionStats>>
\* handleConvert up to its first await
handleConvert ==
    IF videoFile = Null \/ targetBitrate = "" \/ ffmpegRef = Null
    THEN UNCHANGED <<progress, logs, outputUrl, isProcessing,
                     conversionStats, videoDurationRef, nFetch>>
    ELSE /\ isProcessing' = SetState(isProcessing, TRUE)
         /\ progress' = SetState(progress, Zero)
         /\ logs' = SetState(logs, <<>>)
         /\ outputUrl' = SetState(outputUrl, Null)
         /\ videoDurationRef' = 0
         /\ conversionStats' = SetState(conversionStats, InitialStats)
         /\ nFetch' = nFetch + 1

\* the user asks for a conversion: a click on Start Conversion where the
\* page offers the button, nothing where it does not
StartEvent ==
    /\ mounted
    /\ event' = "start"
    /\ IF StartButtonRendered
       THEN handleConvert
       ELSE UNCHANGED <<progress, logs, outputUrl, isProcessing,
                        conversionStats, videoDurationRef, nFetch>>
    /\ UNCHANGED <<windowFFmpeg, mounted, gate, probes, ffmpegReady,
                   loadingProgress, loadingError, videoFile, targetBitrate,
                   ffmpegRef, nRun, fs>>

CatchWithoutFinally ==
    /\ logs' = SetState(logs, AppendLog(logs, ConversionFailedLine))
    /\ UNCHANGED isProcessing
\* the catch and finally blocks of handleConvert
CatchFinally ==
    /\ logs' = SetState(logs, AppendLog(logs, ConversionFailedLine))
    /\ isProcessing' = SetState(isProcessing, FALSE)

\* fetchFile resolves, FS('writeFile') succeeds and ffmpeg.run is called
WriteInput ==
    /\ nFetch > 0
    /\ nFetch' = nFetch - 1
    /\ nRun' = nRun + 1
    /\ fs' = fs \cup {InputFileName}
    /\ event' = "written"
    /\ UNCHANGED <<windowFFmpeg, mounted, gate, probes, reactState,
                   ffmpegRef, videoDurationRef>>

\* fetchFile rejects (nothing written) or FS('writeFile') throws (the file
\* may have been created before the write failed)
WriteInputFails(created) ==
    /\ nFetch > 0
    /\ nFetch' = nFetch - 1
    /\ fs' = IF created THEN fs \cup {InputFileName} ELSE fs
    /\ CatchFinally
    /\ event' = "writeFailed"
    /\ UNCHANGED <<windowFFmpeg, mounted, gate, probes, ffmpegReady,
                   loadingProgress, loadingError, videoFile, targetBitrate,
                   progress, outputUrl, conversionStats, ffmpegRef,
                   videoDurationRef, nRun>>

\* ffmpeg.run resolves; the rest of the try block runs: readFile, the blob
\* URL, the two unlinks.  The engine has written the output or has not.
RunResolves(written) ==
    LET fs1 == IF written THEN fs \cup {OutputFileName} ELSE fs
    IN /\ nRun > 0
       /\ nRun' = nRun - 1
       /\ IF OutputFileName \notin fs1
          THEN \* FS('readFile') throws
               /\ fs' = fs1
               /\ CatchFinally
               /\ UNCHANGED outputUrl
          ELSE IF InputFileName \notin fs1
          THEN \* FS('unlink', inputFileName) throws, after setOutputUrl
               /\ fs' = fs1
               /\ outputUrl' = SetState(outputUrl, BlobUrl)
               /\ CatchFinally
          ELSE /\ fs' = fs1 \ {InputFileName, OutputFileName}
               /\ outputUrl' = SetState(outputUrl, BlobUrl)
               /\ isProcessing' = SetState(isProcessing, FALSE)
               /\ UNCHANGED logs
       /\ event' = "runDone"
       /\ UNCHANGED <<windowFFmpeg, mounted, gate, probes, ffmpegReady,
                      loadingProgress, loadingError, videoFile,
                      targetBitrate, progress, conversionStats, ffmpegRef,
                      videoDurationRef, nFetch>>

\* ffmpeg.run rejects; the engine may have begun the output file
RunRejects(written) ==
    /\ nRun > 0
    /\ nRun' = nRun - 1
    /\ fs' = IF written THEN fs \cup {OutputFileName} ELSE fs
    /\ CatchFinally
    /\ event' = "runFailed"
    /\ UNCHANGED <<windowFFmpeg, mounted, gate, probes, ffmpegReady,
                   loadingProgress, loadingError, videoFile, targetBitrate,
                   progress, outputUrl, conversionStats, ffmpegRef,
                   videoDurationRef, nFetch>>

\* handleReset
handleReset ==
    /\ videoFile' = SetState(videoFile, Null)
    /\ outputUrl' = SetState(outputUrl, Null)
    /\ progress' = SetState(progress, Zero)
    /\ logs' = SetState(logs, <<>>)
    /\ isProcessing' = SetState(isProcessing, FALSE)

\* the user asks for a reset: a click on Convert Another where the page
\* offers the button, nothing where it does not
ResetEvent ==
    /\ mounted
    /\ event' = "reset"
    /\ IF ResultDisplayRendered
       THEN handleReset
       ELSE UNCHANGED <<videoFile, outputUrl, progress, logs, isProcessing>>
    /\ UNCHANGED <<windowFFmpeg, mounted, gate, probes, ffmpegReady,
                   loadingProgress, loadingError, targetBitrate,
                   conversionStats, ffmpegRef, videoDurationRef, nFetch,
                   nRun, fs>>

\* the App component is unmounted; useEffect registered no cleanup
Teardown ==
    /\ mounted
    /\ mounted' = FALSE
    /\ event' = "teardown"
    /\ UNCHANGED <<windowFFmpeg, gate, probes, reactState, ffmpegRef,
                   videoDurationRef, nFetch, nRun, fs>>

Next ==
    \/ ScriptAppears
    \/ checkForFFmpeg
    \/ LoadResolves
    \/ LoadRejects
    \/ \E message \in LogLines : Logger(message)
    \/ \E ratio \in Ratios : ProgressCallback(ratio)
    \/ SelectFile
    \/ \E bitrate \in Bitrates : SetBitrate(bitrate)
    \/ StartEvent
    \/ WriteInput
    \/ \E created \in BOOLEAN : WriteInputFails(created)
    \/ \E written \in BOOLEAN : RunResolves(written)
    \/ \E written \in BOOLEAN : RunRejects(written)
    \/ ResetEvent
    \/ Teardown

Spec == Init /\ [][Next]_vars

\* a pending fetchFile / FS('writeFile') settles
WriteSettles == WriteInput \/ \E created \in BOOLEAN : WriteInputFails(created)

\* a pending ffmpeg.run settles and the synchronous rest of the try runs
RunSettles ==
    \/ \E written \in BOOLEAN : RunResolves(written)
    \/ \E written \in BOOLEAN : RunRejects(written)

\* Spec, with every engine primitive that was called eventually returning
\* or raising
FairSpec == Spec /\ WF_vars(WriteSettles) /\ WF_vars(RunSettles)

----------------------------------------------------------------------------
(* The lifecycle state of the specification, read off the state of App *)

Last(seq) == seq[Len(seq)]

\* the catch block of handleConvert has recorded a failure that is still held
RunFailureRecorded == \E i \in 1..Len(logs) : logs[i] = ConversionFailedLine

JobState ==
    IF loadingError # Null THEN "Failed"
    ELSE IF ~ffmpegReady THEN "AwaitingEngine"
    ELSE IF isProcessing THEN "Running"
    ELSE IF outputUrl # Null THEN "Succeeded"
    ELSE IF RunFailureRecorded THEN "Failed"
    ELSE "Ready"

----------------------------------------------------------------------------
(* Claims *)

\* C1: at most one handleConvert call, and so at most one ffmpeg.run, is in
\* flight, and a start event issued while isProcessing is set starts no
\* second call and leaves the estimator, the logs and isProcessing alone.
C1_SingleRun ==
    /\ [](nFetch + nRun <= 1)
    /\ [][(isProcessing /\ event' = "start") =>
            UNCHANGED <<nFetch, nRun, progress, conversionStats,
                        videoDurationRef, logs, isProcessing>>]_vars

\* a start event arrived during a run that had already logged a line
C1_Witness == event = "start" /\ nRun = 1 /\ isProcessing /\ logs # <<>>

\* C2: once no handleConvert call is in flight, nothing a run wrote is left
\* in the engine's working storage.
C2_StorageReleased == (nFetch = 0 /\ nRun = 0) => fs = {}

\* C3: the poll makes at most MaxAttempts probes and is no longer polling
\* after the MaxAttempts-th probe has found no engine.
C3_GateBounded ==
    /\ probes <= MaxAttempts
    /\ gate = "polling" => probes < MaxAttempts

\* C4: a reset the page offers in Succeeded or Failed leads to Ready with
\* no output, no logs and the estimator at its initial values.
C4_ResetClearsAll ==
    [][(/\ event' = "reset"
        /\ ResultDisplayRendered
        /\ JobState \in {"Succeeded", "Failed"}) =>
          /\ JobState' = "Ready"
          /\ outputUrl' = Null
          /\ logs' = <<>>
          /\ progress' = Zero
          /\ conversionStats' = InitialStats
          /\ videoDurationRef' = 0]_vars

InUnit(r) == ~IsNaN(r) /\ ~Less(r, Zero) /\ ~Less(One, r)

\* the logger has just handled a position beyond the known duration
Overshoot ==
    /\ mounted
    /\ event = "log"
    /\ logs # <<>>
    /\ durationMatch(Last(logs)) = NoMatch
    /\ timeMatch(Last(logs)) # NoMatch
    /\ videoDurationRef > 0
    /\ timeToSeconds(timeMatch(Last(logs)).tc) > videoDurationRef

\* C5: the conversion ratio (progress) and the ratio written by the progress
\* callback (loadingProgress) are numbers in [0,1], and progress is 1 after
\* a position beyond the known duration.
C5_RatioClamped ==
    /\ InUnit(progress)
    /\ InUnit(loadingProgress)
    /\ Overshoot => progress = One

\* C6: a log line handled while videoDurationRef is 0 leaves progress as it
\* was, and progress changes only by a start or reset (to 0) or by a log
\* line handled while videoDurationRef is above 0.
C6_NoDurationNoRatio ==
    /\ [][(event' = "log" /\ ~(videoDurationRef > 0)) =>
            progress' = progress]_vars
    /\ [][progress' # progress =>
            \/ event' \in {"start", "reset"} /\ progress' = Zero
            \/ /\ event' = "log"
               /\ videoDurationRef > 0
               /\ videoDurationRef' = videoDurationRef]_vars

\* a position was handled when the duration found in this run was 0
C6_Witness ==
    /\ event = "log"
    /\ nRun = 1
    /\ logs = << <<Dur(NoTc)>>, <<Fps(600), Time(ThreeSeconds)>> >>
    /\ videoDurationRef = 0
    /\ progress = Zero

\* C7: when ffmpeg.run has rejected, the state is Failed, and that state is
\* left only by a reset event.
C7_FailedUntilReset ==
    /\ [][(event' = "runFailed" /\ mounted) => JobState' = "Failed"]_vars
    /\ [][(event = "runFailed" /\ JobState = "Failed"
             /\ JobState' # "Failed") => event' = "reset"]_vars

\* C8: every marker of a handled line takes effect: its duration, its fps,
\* its speed, and, where a duration was known before the line, its position
\* (against the duration held before or after the line).
C8_IndependentSignals ==
    [][(event' = "log" /\ mounted) =>
          LET m == Last(logs')
              d == durationMatch(m)
              t == timeMatch(m)
              f == fpsMatch(m)
              s == speedMatch(m)
          IN /\ d # NoMatch => videoDurationRef' = timeToSeconds(d.tc)
             /\ f # NoMatch => conversionStats'.fps = MathRound(f.n)
             /\ s # NoMatch => conversionStats'.speed = s.s
             /\ (t # NoMatch /\ videoDurationRef > 0) =>
                   progress' \in
                     { MathMin(One, Divide(timeToSeconds(t.tc), dd)) :
                         dd \in {videoDurationRef, videoDurationRef'} }]_vars

\* C9: a handled line is appended to logs as it is and reaches the
\* estimator, and logs changes only by one line appended at its end or by
\* the clear of a start or a reset.
C9_LogsAppendOnly ==
    /\ [][(event' = "log" /\ mounted) =>
            \E m \in LogLines :
               /\ logs' = Append(logs, m)
               /\ IF durationMatch(m) # NoMatch
                  THEN videoDurationRef' = timeToSeconds(durationMatch(m).tc)
                  ELSE /\ progress' =
                            ProgressAfter(progress, videoDurationRef, m)
                       /\ conversionStats' = StatsAfter(conversionStats, m)]_vars
    /\ [][logs' # logs =>
            \/ event' \in {"start", "reset"} /\ logs' = <<>>
            \/ /\ Len(logs') = Len(logs) + 1
               /\ SubSeq(logs', 1, Len(logs)) = logs]_vars

\* two different lines of one run are held in the order they arrived
C9_Witness ==
    /\ event = "log"
    /\ nRun = 1
    /\ logs = << <<Dur(TwoSeconds)>>, <<Fps(600), Time(ThreeSeconds)>> >>

\* C10: after a teardown during the poll no probe is made and loadFfmpeg
\* is not started.
C10_GateCancelled ==
    [][(~mounted /\ gate = "polling") =>
          (probes' = probes /\ gate' = "polling")]_vars

\* acquiring the engine has failed: the error is shown, or loadFfmpeg has
\* settled without storing a handle
AcquireFailed == loadingError # Null \/ (gate = "settled" /\ ffmpegRef = Null)

\* C11: once acquiring the engine has failed it stays failed: no handle is
\* held, ffmpegReady stays false, no run is started or in flight, and the
\* state is neither Ready nor Running, whatever events follow.
C11_NoRetryInPlace ==
    /\ [](AcquireFailed =>
            /\ ffmpegRef = Null
            /\ ~ffmpegReady
            /\ ~isProcessing
            /\ nFetch = 0 /\ nRun = 0
            /\ gate = "settled"
            /\ JobState \notin {"Ready", "Running"})
    /\ [][AcquireFailed => AcquireFailed']_vars

\* a start event was issued after the load had failed
C11_Witness == loadingError # Null /\ event = "start" /\ ffmpegRef = Null

\* the estimator holds its initial values
EstimatorInitial ==
    /\ progress = Zero
    /\ conversionStats = InitialStats
    /\ videoDurationRef = 0

\* C12: an accepted start leaves the estimator at its initial values and
\* the logs empty in the same step, whatever an earlier run or a line
\* handled since had left, and while the call is in flight the estimator
\* changes only by a handled log line, never by another reset.
C12_ResetBeforeFirstSignal ==
    /\ [][(event' = "start" /\ nFetch' # nFetch) =>
            (EstimatorInitial' /\ logs' = <<>>)]_vars
    /\ [][(nFetch + nRun > 0 /\ nFetch' + nRun' > 0 /\
             <<progress, conversionStats, videoDurationRef>>' #
             <<progress, conversionStats, videoDurationRef>>) =>
            event' = "log"]_vars

\* a start was accepted after an earlier run had failed and left its input
C12_Witness ==
    /\ event = "start"
    /\ nFetch = 1
    /\ InputFileName \in fs
    /\ EstimatorInitial
    /\ logs = <<>>

\* C13: while App is mounted isProcessing is set exactly while a
\* handleConvert call is in flight, and, the engine primitives settling,
\* every call in flight comes to its end.
C13_RunEnds ==
    /\ [](mounted => (isProcessing <=> nFetch + nRun > 0))
    /\ (nFetch + nRun > 0) ~> (nFetch + nRun = 0)

\* a run has ended on the failure path and the flag is cleared
C13_Witness ==
    /\ event = "runFailed"
    /\ mounted
    /\ ~isProcessing
    /\ nFetch + nRun = 0

====
